---- MODULE Spec2Model ----
(***************************************************************************)
(* Aegistrate: the readiness gate (DISCORD_READY, READY_TO_GO), the        *)
(* timeout checker, the `ready` event handler and the application-command  *)
(* dispatcher of src/bot/handler.rs.                                       *)
(*                                                                         *)
(* Every serenity event runs in a task of its own, so `ready` handlers and *)
(* `interaction_create` handlers interleave at their shared reads/writes   *)
(* and await points; one action below is one such step.  A panic ends the  *)
(* task it happens in and nothing else.                                    *)
(***************************************************************************)
EXTENDS Integers, Sequences, FiniteSets, TLC

\* ---------------------------------------------------------------- bounds
NumReady == 2        \* ready events delivered (first connect, reconnects)
NumDisp == 2         \* interactions delivered
NumUsers == 1        \* invoking users
MaxTime == 2         \* the wall clock runs 0..MaxTime
Timeout == 1         \* timeout_seconds is -1 or Timeout
KickCooldown == 2    \* cooldown of "kick", in clock units

ReadyIds == 1..NumReady
DispIds == 1..NumDisp
Users == 1..NumUsers

\* Registered commands and the names an interaction may carry.
Commands == {"ban", "kick"}
CommandNames == Commands \cup {"foo"}

\* command.metadata().cooldown: "ban" has none, "kick" has KickCooldown.
cooldown_secs(c) == IF c = "kick" THEN KickCooldown ELSE 0

NoUser == 0          \* AEGISTRATE_USER: the OnceCell is empty
NoRecord == -1       \* cooldown store: no record for the key
NotExited == -1      \* the process is running
BotUser == 1         \* bot_data.user of every ready event

VARIABLES
    DISCORD_READY,     \* static AtomicBool
    READY_TO_GO,       \* static AtomicBool
    AEGISTRATE_USER,   \* static OnceCell<CurrentUser>
    MONGODB_CLIENT,    \* static OnceCell<mongod::Client>: TRUE when filled
    presence,          \* what set_presence last announced
    dataReady,         \* init_all_data has completed
    registry,          \* names set_up_commands has registered
    cooldowns,         \* cooldown store: [user, command] -> timestamp
    now,               \* wall clock
    timeout_seconds,   \* get_exec_config().timeout_seconds
    wdPc,              \* the timeout checker thread
    wdLog,             \* error records of the timeout checker
    exitCode,          \* std::process::exit status, NotExited while running
    rpc,               \* per ready handler: where it is
    rTrace,            \* per ready handler: the calls it has made
    rStart,            \* per ready handler: <<DISCORD_READY, READY_TO_GO>> on delivery
    dpc,               \* per interaction: where it is
    dUser,             \* per interaction: app_interaction.user.id
    dName,             \* per interaction: app_interaction.data.name
    dTrace,            \* per interaction: the calls it has made, in order
    dRemaining,        \* per interaction: remaining cooldown put in the response
    dCheckedAt         \* per interaction: the clock when cooled_down was called

gate == <<DISCORD_READY, READY_TO_GO, AEGISTRATE_USER, MONGODB_CLIENT, presence>>
systems == <<dataReady, registry>>
clock == <<now, timeout_seconds>>
watchdog == <<wdPc, wdLog, exitCode>>
readies == <<rpc, rTrace, rStart>>
disps == <<dpc, dUser, dName, dTrace, dRemaining, dCheckedAt>>
vars == <<gate, systems, cooldowns, clock, watchdog, readies, disps>>

Running == exitCode = NotExited

Init ==
    /\ DISCORD_READY = FALSE
    /\ READY_TO_GO = FALSE
    /\ AEGISTRATE_USER = NoUser
    /\ MONGODB_CLIENT = FALSE
    /\ presence = "none"
    /\ dataReady = FALSE
    /\ registry = {}
    /\ cooldowns = [k \in Users \X Commands |-> NoRecord]
    /\ now = 0
    /\ timeout_seconds \in {-1, Timeout}
    /\ wdPc = "sleep"
    /\ wdLog = <<>>
    /\ exitCode = NotExited
    /\ rpc = [h \in ReadyIds |-> "idle"]
    /\ rTrace = [h \in ReadyIds |-> <<>>]
    /\ rStart = [h \in ReadyIds |-> <<FALSE, FALSE>>]
    /\ dpc = [i \in DispIds |-> "idle"]
    /\ dUser = [i \in DispIds |-> 1]
    /\ dName = [i \in DispIds |-> "ban"]
    /\ dTrace = [i \in DispIds |-> <<>>]
    /\ dRemaining = [i \in DispIds |-> NoRecord]
    /\ dCheckedAt = [i \in DispIds |-> NoRecord]

\* ------------------------------------------------------------ wall clock
Tick ==
    /\ Running
    /\ now < MaxTime
    /\ now' = now + 1
    /\ UNCHANGED <<gate, systems, cooldowns, timeout_seconds, watchdog, readies, disps>>

\* -------------------------------------------------- spawn_timeout_checker
\* `ready_up_time as u64`: a negative i64 wraps to 2^64 + x seconds, a sleep
\* that outlasts any clock; Forever stands for that value.
Forever == 2147483647
as_u64(x) == IF x >= 0 THEN x ELSE Forever

\* Variant of timeout_check: the error is logged but the thread returns
\* instead of exiting.
timeout_check_no_exit ==
    /\ Running
    /\ wdPc = "sleep"
    /\ now >= as_u64(timeout_seconds)
    /\ wdLog' = IF ~DISCORD_READY THEN Append(wdLog, "Services not ready") ELSE wdLog
    /\ wdPc' = "done"
    /\ UNCHANGED <<gate, systems, cooldowns, clock, exitCode, readies, disps>>

\* Variant of timeout_check: the checker loads READY_TO_GO instead of
\* DISCORD_READY.
timeout_check_ready_to_go ==
    /\ Running
    /\ wdPc = "sleep"
    /\ now >= as_u64(timeout_seconds)
    /\ IF ~READY_TO_GO
         THEN /\ wdLog' = Append(wdLog, "Services not ready")
              /\ wdPc' = "exit"
         ELSE /\ wdLog' = wdLog
              /\ wdPc' = "done"
    /\ UNCHANGED <<gate, systems, cooldowns, clock, exitCode, readies, disps>>

\* thread::sleep returns, then DISCORD_READY is loaded; error! when unset.
timeout_check ==
    /\ Running
    /\ wdPc = "sleep"
    /\ now >= as_u64(timeout_seconds)
    /\ IF ~DISCORD_READY
         THEN /\ wdLog' = Append(wdLog, "Services not ready")
              /\ wdPc' = "exit"
         ELSE /\ wdLog' = wdLog
              /\ wdPc' = "done"
    /\ UNCHANGED <<gate, systems, cooldowns, clock, exitCode, readies, disps>>

\* std::process::exit(1)
timeout_exit ==
    /\ Running
    /\ wdPc = "exit"
    /\ exitCode' = 1
    /\ wdPc' = "done"
    /\ UNCHANGED <<gate, systems, cooldowns, clock, wdLog, readies, disps>>

\* ------------------------------------------------------- EventHandler::ready
RSet(h, pc, evs) ==
    /\ rpc' = [rpc EXCEPT ![h] = pc]
    /\ rTrace' = [rTrace EXCEPT ![h] = @ \o evs]

\* A ready event is delivered and its handler task starts with
\* set_up_database().await.unwrap_or_else(panic!): the connection either is
\* made, and fills MONGODB_CLIENT when it is empty, or the handler panics.
ready(h) ==
    /\ Running
    /\ rpc[h] = "idle"
    /\ \A g \in ReadyIds : g < h => rpc[g] # "idle"
    /\ rStart' = [rStart EXCEPT ![h] = <<DISCORD_READY, READY_TO_GO>>]
    /\ \E ok \in BOOLEAN :
         IF ok
           THEN /\ MONGODB_CLIENT' = TRUE
                /\ RSet(h, "check", <<"set_up_database">>)
           ELSE /\ MONGODB_CLIENT' = MONGODB_CLIENT
                /\ RSet(h, "panicked", <<"set_up_database", "panic_database">>)
    /\ UNCHANGED <<DISCORD_READY, READY_TO_GO, AEGISTRATE_USER, presence, systems,
                   cooldowns, clock, watchdog, disps>>

\* Variant of ready_check: the guard on DISCORD_READY is missing.
ready_check_unguarded(h) ==
    /\ Running
    /\ rpc[h] = "check"
    /\ RSet(h, "discord_ready_up", <<>>)
    /\ UNCHANGED <<gate, systems, cooldowns, clock, watchdog, rStart, disps>>

\* if !DISCORD_READY.load(Relaxed)
ready_check(h) ==
    /\ Running
    /\ rpc[h] = "check"
    /\ RSet(h, IF ~DISCORD_READY THEN "discord_ready_up" ELSE "appear_active", <<>>)
    /\ UNCHANGED <<gate, systems, cooldowns, clock, watchdog, rStart, disps>>

\* Variant of discord_ready_up: DISCORD_READY is never stored.
discord_ready_up_no_store(h) ==
    /\ Running
    /\ rpc[h] = "discord_ready_up"
    /\ IF AEGISTRATE_USER # NoUser
         THEN /\ RSet(h, "panicked", <<"discord_ready_up", "panic_user_set">>)
              /\ UNCHANGED <<AEGISTRATE_USER, presence>>
         ELSE /\ AEGISTRATE_USER' = BotUser
              /\ presence' = "the waiting game..."
              /\ RSet(h, "initialize_systems", <<"discord_ready_up">>)
    /\ UNCHANGED <<DISCORD_READY, READY_TO_GO, MONGODB_CLIENT, systems, cooldowns, clock,
                   watchdog, rStart, disps>>

\* AEGISTRATE_USER.set(..).unwrap(); DISCORD_READY.store(true); set_presence.
discord_ready_up(h) ==
    /\ Running
    /\ rpc[h] = "discord_ready_up"
    /\ IF AEGISTRATE_USER # NoUser
         THEN /\ RSet(h, "panicked", <<"discord_ready_up", "panic_user_set">>)
              /\ UNCHANGED <<AEGISTRATE_USER, DISCORD_READY, presence>>
         ELSE /\ AEGISTRATE_USER' = BotUser
              /\ DISCORD_READY' = TRUE
              /\ presence' = "the waiting game..."
              /\ RSet(h, "initialize_systems", <<"discord_ready_up">>)
    /\ UNCHANGED <<READY_TO_GO, MONGODB_CLIENT, systems, cooldowns, clock, watchdog,
                   rStart, disps>>

\* initialize_systems: init_all_data().await?; set_up_commands(context).await?
\* The first error returns at once and `ready` logs it with error!; nothing
\* reads the data between the two calls.
initialize_systems(h) ==
    /\ Running
    /\ rpc[h] = "initialize_systems"
    /\ \E res \in {"data_failed", "commands_failed", "ok"} :
         CASE res = "data_failed" ->
                /\ UNCHANGED systems
                /\ RSet(h, "appear_active", <<"init_all_data", "error_initializing">>)
           [] res = "commands_failed" ->
                /\ dataReady' = TRUE
                /\ registry' = registry
                /\ RSet(h, "appear_active",
                        <<"init_all_data", "set_up_commands", "error_initializing">>)
           [] res = "ok" ->
                /\ dataReady' = TRUE
                /\ registry' = Commands
                /\ RSet(h, "appear_active", <<"init_all_data", "set_up_commands">>)
    /\ UNCHANGED <<gate, cooldowns, clock, watchdog, rStart, disps>>

\* Variant of appear_active: READY_TO_GO.store(ok), where ok says that this
\* handler logged no initialization error.
appear_active_store_result(h) ==
    /\ Running
    /\ rpc[h] = "appear_active"
    /\ presence' = "over the server"
    /\ READY_TO_GO' = \A k \in 1..Len(rTrace[h]) : rTrace[h][k] # "error_initializing"
    /\ IF AEGISTRATE_USER = NoUser
         THEN RSet(h, "panicked", <<"appear_active", "panic_user_get">>)
         ELSE RSet(h, "done", <<"appear_active">>)
    /\ UNCHANGED <<DISCORD_READY, AEGISTRATE_USER, MONGODB_CLIENT, systems, cooldowns,
                   clock, watchdog, rStart, disps>>

\* set_presence; READY_TO_GO.store(true); info!(.. get_aegistrate_user()).
appear_active(h) ==
    /\ Running
    /\ rpc[h] = "appear_active"
    /\ presence' = "over the server"
    /\ READY_TO_GO' = TRUE
    /\ IF AEGISTRATE_USER = NoUser
         THEN RSet(h, "panicked", <<"appear_active", "panic_user_get">>)
         ELSE RSet(h, "done", <<"appear_active">>)
    /\ UNCHANGED <<DISCORD_READY, AEGISTRATE_USER, MONGODB_CLIENT, systems, cooldowns,
                   clock, watchdog, rStart, disps>>

\* ------------------------------------------------------ Command Registry
\* command_by_name(name): the registered command of that name, if any.
command_by_name(name) == IF name \in registry THEN {name} ELSE {}

\* ------------------------------------------------------- Cooldown Store
\* cooled_down(user, command): no record, or the cooldown has elapsed.
cooled_down(u, c) ==
    \/ cooldowns[<<u, c>>] = NoRecord
    \/ now - cooldowns[<<u, c>>] >= cooldown_secs(c)

Max(a, b) == IF a >= b THEN a ELSE b

\* get_remaining_cooldown(user, command): max(0, cooldown - (now - last)).
get_remaining_cooldown(u, c) ==
    IF cooldowns[<<u, c>>] = NoRecord
      THEN 0
      ELSE Max(0, cooldown_secs(c) - (now - cooldowns[<<u, c>>]))

\* use_last(user, command): upsert the record with the current time.
use_last(u, c) == [cooldowns EXCEPT ![<<u, c>>] = now]

\* ------------------------------------------- EventHandler::interaction_create
DSet(i, pc, evs) ==
    /\ dpc' = [dpc EXCEPT ![i] = pc]
    /\ dTrace' = [dTrace EXCEPT ![i] = @ \o evs]

\* Variant of interaction_create: the `return` after not_ready_respond is
\* missing.
interaction_create_no_return(i) ==
    /\ Running
    /\ dpc[i] = "idle"
    /\ \A j \in DispIds : j < i => dpc[j] # "idle"
    /\ \E u \in Users, n \in CommandNames :
         /\ dUser' = [dUser EXCEPT ![i] = u]
         /\ dName' = [dName EXCEPT ![i] = n]
    /\ IF ~READY_TO_GO
         THEN DSet(i, "lookup", <<"not_ready_respond">>)
         ELSE DSet(i, "lookup", <<>>)
    /\ UNCHANGED <<gate, systems, cooldowns, clock, watchdog, readies, dRemaining, dCheckedAt>>

\* An application-command interaction is delivered and its task enters
\* run_application_command: if !READY_TO_GO.load(Relaxed) { not_ready_respond;
\* return }.  The result of the respond call is dropped (`let _ =`).
interaction_create(i) ==
    /\ Running
    /\ dpc[i] = "idle"
    /\ \A j \in DispIds : j < i => dpc[j] # "idle"
    /\ \E u \in Users, n \in CommandNames :
         /\ dUser' = [dUser EXCEPT ![i] = u]
         /\ dName' = [dName EXCEPT ![i] = n]
    /\ IF ~READY_TO_GO
         THEN DSet(i, "done", <<"not_ready_respond">>)
         ELSE DSet(i, "lookup", <<>>)
    /\ UNCHANGED <<gate, systems, cooldowns, clock, watchdog, readies, dRemaining, dCheckedAt>>

\* Variant of lookup: an unknown name is answered and then treated as "ban".
lookup_no_return(i) ==
    /\ Running
    /\ dpc[i] = "lookup"
    /\ IF command_by_name(dName[i]) = {}
         THEN /\ DSet(i, "cooldown", <<"command_by_name", "unknown_command_respond">>)
              /\ dName' = [dName EXCEPT ![i] = "ban"]
         ELSE /\ DSet(i, "cooldown", <<"command_by_name">>)
              /\ dName' = dName
    /\ UNCHANGED <<gate, systems, cooldowns, clock, watchdog, readies, dUser, dRemaining, dCheckedAt>>

\* let Some(command) = command_by_name(name) else { unknown_command_respond;
\* return }
lookup(i) ==
    /\ Running
    /\ dpc[i] = "lookup"
    /\ IF command_by_name(dName[i]) = {}
         THEN DSet(i, "done", <<"command_by_name", "unknown_command_respond">>)
         ELSE DSet(i, "cooldown", <<"command_by_name">>)
    /\ UNCHANGED <<gate, systems, cooldowns, clock, watchdog, readies, dUser, dName,
                   dRemaining, dCheckedAt>>

\* Variant of cooldown_check: unwrap_or(true), a failed check counts as
\* cooled down.
cooldown_check_fail_open(i) ==
    /\ Running
    /\ dpc[i] = "cooldown"
    /\ \E reachable \in BOOLEAN :
         IF ~reachable
           THEN DSet(i, "execute", <<"cooled_down", "cooled_down_failed">>)
           ELSE IF ~cooled_down(dUser[i], dName[i])
                  THEN DSet(i, "not_cooled_down", <<"cooled_down">>)
                  ELSE DSet(i, "execute", <<"cooled_down">>)
    /\ dCheckedAt' = [dCheckedAt EXCEPT ![i] = now]
    /\ UNCHANGED <<gate, systems, cooldowns, clock, watchdog, readies, dUser, dName,
                   dRemaining>>

\* Variant of cooldown_check: the `!` is missing, a cooled-down dispatch is
\* rejected and one on cooldown executes.
cooldown_check_inverted(i) ==
    /\ Running
    /\ dpc[i] = "cooldown"
    /\ \E reachable \in BOOLEAN :
         IF ~reachable
           THEN DSet(i, "panicked", <<"cooled_down", "cooled_down_failed">>)
           ELSE IF cooled_down(dUser[i], dName[i])
                  THEN DSet(i, "not_cooled_down", <<"cooled_down">>)
                  ELSE DSet(i, "execute", <<"cooled_down">>)
    /\ dCheckedAt' = [dCheckedAt EXCEPT ![i] = now]
    /\ UNCHANGED <<gate, systems, cooldowns, clock, watchdog, readies, dUser, dName,
                   dRemaining>>

\* Variant of cooldown_check: a per-key lock is held from the check to
\* use_last, so the check waits while another dispatch of the key holds it.
cooldown_check_locked(i) ==
    /\ Running
    /\ dpc[i] = "cooldown"
    /\ \A j \in DispIds \ {i} :
         ~(dUser[j] = dUser[i] /\ dName[j] = dName[i] /\ dpc[j] \in {"execute", "use_last"})
    /\ \E reachable \in BOOLEAN :
         IF ~reachable
           THEN DSet(i, "panicked", <<"cooled_down", "cooled_down_failed">>)
           ELSE IF ~cooled_down(dUser[i], dName[i])
                  THEN DSet(i, "not_cooled_down", <<"cooled_down">>)
                  ELSE DSet(i, "execute", <<"cooled_down">>)
    /\ dCheckedAt' = [dCheckedAt EXCEPT ![i] = now]
    /\ UNCHANGED <<gate, systems, cooldowns, clock, watchdog, readies, dUser, dName,
                   dRemaining>>

\* if !cooled_down(user, command).await.unwrap() { not_cooled_down_respond;
\* return }.  A store failure makes unwrap panic.
cooldown_check(i) ==
    /\ Running
    /\ dpc[i] = "cooldown"
    /\ \E reachable \in BOOLEAN :
         IF ~reachable
           THEN DSet(i, "panicked", <<"cooled_down", "cooled_down_failed">>)
           ELSE IF ~cooled_down(dUser[i], dName[i])
                  THEN DSet(i, "not_cooled_down", <<"cooled_down">>)
                  ELSE DSet(i, "execute", <<"cooled_down">>)
    /\ dCheckedAt' = [dCheckedAt EXCEPT ![i] = now]
    /\ UNCHANGED <<gate, systems, cooldowns, clock, watchdog, readies, dUser, dName,
                   dRemaining>>

\* Variant of not_cooled_down_respond: the embed carries the command's whole
\* cooldown instead of what remains of it.
not_cooled_down_respond_whole(i) ==
    /\ Running
    /\ dpc[i] = "not_cooled_down"
    /\ \E reachable \in BOOLEAN :
         IF ~reachable
           THEN /\ DSet(i, "done", <<"get_remaining_cooldown", "remaining_failed">>)
                /\ dRemaining' = dRemaining
           ELSE /\ DSet(i, "done", <<"get_remaining_cooldown", "cooldown_respond">>)
                /\ dRemaining' = [dRemaining EXCEPT ![i] = cooldown_secs(dName[i])]
    /\ UNCHANGED <<gate, systems, cooldowns, clock, watchdog, readies, dUser, dName,
                   dCheckedAt>>

\* not_cooled_down_respond: get_remaining_cooldown(..).await? returns the
\* error before anything is sent; otherwise the embed carries the remaining
\* seconds.  The caller drops the result and returns.
not_cooled_down_respond(i) ==
    /\ Running
    /\ dpc[i] = "not_cooled_down"
    /\ \E reachable \in BOOLEAN :
         IF ~reachable
           THEN /\ DSet(i, "done", <<"get_remaining_cooldown", "remaining_failed">>)
                /\ dRemaining' = dRemaining
           ELSE /\ DSet(i, "done", <<"get_remaining_cooldown", "cooldown_respond">>)
                /\ dRemaining' =
                     [dRemaining EXCEPT ![i] = get_remaining_cooldown(dUser[i], dName[i])]
    /\ UNCHANGED <<gate, systems, cooldowns, clock, watchdog, readies, dUser, dName,
                   dCheckedAt>>

\* Variant of execute: an Err is logged and returned at once, skipping
\* use_last.
execute_return_on_err(i) ==
    /\ Running
    /\ dpc[i] = "execute"
    /\ \E res \in {"ok", "err", "panic"} :
         CASE res = "ok" -> DSet(i, "use_last", <<"execute", "info_executed">>)
           [] res = "err" -> DSet(i, "done", <<"execute", "error_executed">>)
           [] res = "panic" -> DSet(i, "panicked", <<"execute", "panic_execute">>)
    /\ UNCHANGED <<gate, systems, cooldowns, clock, watchdog, readies, dUser, dName,
                   dRemaining, dCheckedAt>>

\* handle_command_execution: command.execute(..).await, then info! on Ok and
\* error! on Err.  A command may panic (ban unwraps guild_id).
execute(i) ==
    /\ Running
    /\ dpc[i] = "execute"
    /\ \E res \in {"ok", "err", "panic"} :
         CASE res = "ok" -> DSet(i, "use_last", <<"execute", "info_executed">>)
           [] res = "err" -> DSet(i, "use_last", <<"execute", "error_executed">>)
           [] res = "panic" -> DSet(i, "panicked", <<"execute", "panic_execute">>)
    /\ UNCHANGED <<gate, systems, cooldowns, clock, watchdog, readies, dUser, dName,
                   dRemaining, dCheckedAt>>

\* Variant of record_use: the record is stamped with the time of the
\* cooldown check instead of the time of the call.
record_use_stale(i) ==
    /\ Running
    /\ dpc[i] = "use_last"
    /\ \E reachable \in BOOLEAN :
         IF reachable
           THEN /\ cooldowns' = [cooldowns EXCEPT ![<<dUser[i], dName[i]>>] = dCheckedAt[i]]
                /\ DSet(i, "done", <<"use_last">>)
           ELSE /\ cooldowns' = cooldowns
                /\ DSet(i, "done", <<"use_last", "use_last_failed">>)
    /\ UNCHANGED <<gate, systems, clock, watchdog, readies, dUser, dName, dRemaining, dCheckedAt>>

\* Variant of record_use: the record is keyed by the user alone, so every
\* command of the user is stamped.
record_use_by_user(i) ==
    /\ Running
    /\ dpc[i] = "use_last"
    /\ \E reachable \in BOOLEAN :
         IF reachable
           THEN /\ cooldowns' = [k \in DOMAIN cooldowns |->
                                  IF k[1] = dUser[i] THEN now ELSE cooldowns[k]]
                /\ DSet(i, "done", <<"use_last">>)
           ELSE /\ cooldowns' = cooldowns
                /\ DSet(i, "done", <<"use_last", "use_last_failed">>)
    /\ UNCHANGED <<gate, systems, clock, watchdog, readies, dUser, dName, dRemaining, dCheckedAt>>

\* handle_command_execution: let _ = use_last(user, command).await;
record_use(i) ==
    /\ Running
    /\ dpc[i] = "use_last"
    /\ \E reachable \in BOOLEAN :
         IF reachable
           THEN /\ cooldowns' = use_last(dUser[i], dName[i])
                /\ DSet(i, "done", <<"use_last">>)
           ELSE /\ cooldowns' = cooldowns
                /\ DSet(i, "done", <<"use_last", "use_last_failed">>)
    /\ UNCHANGED <<gate, systems, clock, watchdog, readies, dUser, dName, dRemaining, dCheckedAt>>

Next ==
    \/ Tick
    \/ timeout_check
    \/ timeout_exit
    \/ \E h \in ReadyIds : ready(h)
    \/ \E h \in ReadyIds : ready_check(h)
    \/ \E h \in ReadyIds : discord_ready_up(h)
    \/ \E h \in ReadyIds : initialize_systems(h)
    \/ \E h \in ReadyIds : appear_active(h)
    \/ \E i \in DispIds : interaction_create(i)
    \/ \E i \in DispIds : lookup(i)
    \/ \E i \in DispIds : cooldown_check(i)
    \/ \E i \in DispIds : not_cooled_down_respond(i)
    \/ \E i \in DispIds : execute(i)
    \/ \E i \in DispIds : record_use(i)

Spec == Init /\ [][Next]_vars

\* The clock advances and the scheduler runs the timeout checker thread.
FairSpec == Spec /\ WF_vars(Tick) /\ WF_vars(timeout_check) /\ WF_vars(timeout_exit)

\* Sequential dispatch: an interaction is delivered only when no other one
\* is being handled.
Handling(i) == dpc[i] \notin {"idle", "done", "panicked"}
sequential_interaction_create(i) ==
    /\ \A j \in DispIds : ~Handling(j)
    /\ interaction_create(i)

NextSeq ==
    \/ Tick
    \/ timeout_check
    \/ timeout_exit
    \/ \E h \in ReadyIds : ready(h)
    \/ \E h \in ReadyIds : ready_check(h)
    \/ \E h \in ReadyIds : discord_ready_up(h)
    \/ \E h \in ReadyIds : initialize_systems(h)
    \/ \E h \in ReadyIds : appear_active(h)
    \/ \E i \in DispIds : sequential_interaction_create(i)
    \/ \E i \in DispIds : lookup(i)
    \/ \E i \in DispIds : cooldown_check(i)
    \/ \E i \in DispIds : not_cooled_down_respond(i)
    \/ \E i \in DispIds : execute(i)
    \/ \E i \in DispIds : record_use(i)

SeqSpec == Init /\ [][NextSeq]_vars

\* ------------------------------------------------------------ properties
Has(t, e) == \E k \in 1..Len(t) : t[k] = e
Count(t, e) == Cardinality({k \in 1..Len(t) : t[k] = e})
Index(t, e) == CHOOSE k \in 1..Len(t) : t[k] = e
\* Some ready handler's initialize_systems has returned Ok.
SystemsInitialized ==
    \E h \in ReadyIds :
      Has(rTrace[h], "set_up_commands") /\ ~Has(rTrace[h], "error_initializing")
InFlight(h) == rpc[h] \notin {"idle", "done", "panicked"}

\* C1: a dispatch that reads READY_TO_GO as false sends the not-ready
\* response and stops: no registry lookup, no cooldown check, no execution,
\* no use_last.  While READY_TO_GO is unset every interaction delivered has
\* ended that way and the cooldown store is empty.
NotReadyStops ==
    /\ \A i \in DispIds :
         Has(dTrace[i], "not_ready_respond") =>
           dpc[i] = "done" /\ dTrace[i] = <<"not_ready_respond">>
    /\ ~READY_TO_GO =>
         /\ \A i \in DispIds :
              \/ dpc[i] = "idle"
              \/ dpc[i] = "done" /\ dTrace[i] = <<"not_ready_respond">>
         /\ \A k \in DOMAIN cooldowns : cooldowns[k] = NoRecord

NotReadyWitness ==
    \E i \in DispIds :
      /\ dpc[i] = "done"
      /\ dTrace[i] = <<"not_ready_respond">>
      /\ dName[i] \in registry
      /\ ~READY_TO_GO

\* C2: READY_TO_GO is set only once init_all_data and set_up_commands have
\* both completed successfully.
ReadyToGoImpliesInitialized == READY_TO_GO => SystemsInitialized

\* C3: READY_TO_GO implies DISCORD_READY, whatever fails or panics on the way.
AcceptingImpliesServiceReady == READY_TO_GO => DISCORD_READY

AcceptingAfterFailuresWitness ==
    /\ READY_TO_GO
    /\ ~SystemsInitialized
    /\ \E h \in ReadyIds : rpc[h] = "panicked"

\* C4: a ready event delivered while DISCORD_READY is already set runs neither
\* discord_ready_up nor initialize_systems; once no handler is in flight a set
\* DISCORD_READY comes with a set READY_TO_GO, and a ready event delivered in
\* that state leaves both flags as they were.
ReadyIdempotent ==
    /\ \A h \in ReadyIds :
         rStart[h][1] =>
           /\ ~Has(rTrace[h], "discord_ready_up")
           /\ ~Has(rTrace[h], "init_all_data")
           /\ ~Has(rTrace[h], "set_up_commands")
    /\ ((\A h \in ReadyIds : ~InFlight(h)) /\ DISCORD_READY) => READY_TO_GO
    /\ \A h \in ReadyIds :
         (rpc[h] \in {"done", "panicked"} /\ rStart[h] = <<TRUE, TRUE>>) =>
           <<DISCORD_READY, READY_TO_GO>> = rStart[h]

SecondReadyWitness ==
    \E h \in ReadyIds :
      /\ rpc[h] = "done"
      /\ rStart[h] = <<TRUE, TRUE>>
      /\ rTrace[h] = <<"set_up_database", "appear_active">>
      /\ \A g \in ReadyIds \ {h} : rpc[g] = "done"

\* C5: when the timeout checker wakes and finds DISCORD_READY unset it logs
\* the error and then exits the process with status 1; no other status is
\* ever produced; and with a deadline the clock reaches, either DISCORD_READY
\* gets set or the process terminates.
TimeoutTerminates ==
    /\ [][(wdPc = "sleep" /\ wdPc' # "sleep" /\ ~DISCORD_READY) =>
            (wdPc' = "exit" /\ wdLog' = <<"Services not ready">>)]_vars
    /\ [](exitCode # NotExited =>
            (exitCode = 1 /\ wdLog = <<"Services not ready">>))
    /\ (wdPc = "exit") ~> (exitCode = 1)
    /\ (as_u64(timeout_seconds) <= MaxTime) => <>(DISCORD_READY \/ exitCode = 1)

TimeoutWitness ==
    /\ exitCode = 1
    /\ ~DISCORD_READY
    /\ now >= as_u64(timeout_seconds)

\* C6: once execute has returned, Ok or Err, use_last is called exactly once,
\* after the outcome is logged; it is never called before execute returns.
RecordsUseAfterExecution ==
    \A i \in DispIds :
      LET t == dTrace[i]
          returned == Has(t, "info_executed") \/ Has(t, "error_executed")
      IN /\ Count(t, "use_last") <= 1
         /\ Has(t, "use_last") => returned
         /\ returned =>
              \/ dpc[i] = "use_last" /\ ~Has(t, "use_last")
              \/ /\ dpc[i] = "done"
                 /\ Count(t, "use_last") = 1
                 /\ Count(t, "execute") = 1
                 /\ Index(t, "execute") < Index(t, "use_last")

RecordsUseAfterFailureWitness ==
    \E i \in DispIds :
      /\ dpc[i] = "done"
      /\ Has(dTrace[i], "error_executed")
      /\ Has(dTrace[i], "use_last")
      /\ cooldowns[<<dUser[i], dName[i]>>] # NoRecord

\* C7: a dispatch whose cooldown check says "not cooled down" sends the
\* cooldown response with the remaining seconds and stops without executing
\* or recording.
NotCooledDownResponds ==
    \A i \in DispIds :
      (dpc[i] = "done" /\ Has(dTrace[i], "get_remaining_cooldown")) =>
        /\ Has(dTrace[i], "cooldown_respond")
        /\ dRemaining[i] # NoRecord
        /\ ~Has(dTrace[i], "execute")
        /\ ~Has(dTrace[i], "use_last")

\* C8: with READY_TO_GO set and the name not in the registry, the dispatch
\* sends the unknown-command response and stops: no cooldown check, no
\* execution, no use_last, and every record of the cooldown store was written
\* by some other dispatch.
UnknownCommandStops ==
    \A i \in DispIds :
      /\ Has(dTrace[i], "unknown_command_respond") =>
           /\ dpc[i] = "done"
           /\ dTrace[i] = <<"command_by_name", "unknown_command_respond">>
           /\ dRemaining[i] = NoRecord
      /\ (Has(dTrace[i], "command_by_name") /\ dName[i] \notin registry) =>
           Has(dTrace[i], "unknown_command_respond")
      /\ Has(dTrace[i], "unknown_command_respond") =>
           \A u \in Users : \A c \in Commands :
             cooldowns[<<u, c>>] # NoRecord =>
               \E j \in DispIds \ {i} :
                 dUser[j] = u /\ dName[j] = c /\ Has(dTrace[j], "use_last")

UnknownCommandWitness ==
    \E i \in DispIds :
      /\ dpc[i] = "done"
      /\ dName[i] = "foo"
      /\ READY_TO_GO
      /\ registry = Commands
      /\ dTrace[i] = <<"command_by_name", "unknown_command_respond">>

\* C9: when the cooldown check fails the dispatch ends there: nothing is sent,
\* nothing is executed or recorded, and the step changes neither the flags,
\* the cooldown store nor any other dispatch.
CooldownFailureAborts ==
    /\ [](\A i \in DispIds :
            Has(dTrace[i], "cooled_down_failed") =>
              /\ dpc[i] = "panicked"
              /\ dTrace[i] = <<"command_by_name", "cooled_down", "cooled_down_failed">>)
    /\ [][\A i \in DispIds :
            (dpc[i] = "cooldown" /\ Has(dTrace'[i], "cooled_down_failed")) =>
              /\ UNCHANGED <<gate, systems, cooldowns, watchdog, readies>>
              /\ \A j \in DispIds \ {i} :
                   dpc'[j] = dpc[j] /\ dTrace'[j] = dTrace[j]]_vars

CooldownFailureWitness ==
    \E i, j \in DispIds :
      /\ i # j
      /\ dpc[i] = "panicked"
      /\ Has(dTrace[i], "cooled_down_failed")
      /\ dpc[j] = "done"
      /\ Has(dTrace[j], "use_last")

\* C10: a failed use_last is logged and swallowed: the dispatch completes and
\* the execution outcome logged before stays as it was.
RecordFailureLogged ==
    \A i \in DispIds :
      Has(dTrace[i], "use_last_failed") =>
        /\ dpc[i] = "done"
        /\ Count(dTrace[i], "info_executed") + Count(dTrace[i], "error_executed") = 1
        /\ Has(dTrace[i], "error_use_last")

\* ---------------------------------------------------------- cooldowns
\* The latest interaction delivered; under SeqSpec nothing but its own
\* record_use writes the store while it is the latest.
Latest(i) == dpc[i] # "idle" /\ \A j \in DispIds : j > i => dpc[j] = "idle"
Rec(i) == cooldowns[<<dUser[i], dName[i]>>]
Rejected(i) ==
    /\ Has(dTrace[i], "cooled_down")
    /\ ~Has(dTrace[i], "cooled_down_failed")
    /\ dpc[i] = "not_cooled_down" \/ Has(dTrace[i], "get_remaining_cooldown")
Passed(i) ==
    /\ Has(dTrace[i], "cooled_down")
    /\ dpc[i] = "execute" \/ Has(dTrace[i], "execute")
Recorded(i) == Has(dTrace[i], "use_last") /\ ~Has(dTrace[i], "use_last_failed")

\* C11 as claimed: under sequential dispatch the cooldown response reports
\* exactly d - (t' - t), t' being the time of the cooldown check and t the
\* time of the recorded use.
ReportedRemainingExact ==
    \A i \in DispIds :
      (Latest(i) /\ Has(dTrace[i], "cooldown_respond")) =>
        dRemaining[i] = cooldown_secs(dName[i]) - (dCheckedAt[i] - Rec(i))

\* C11: under sequential dispatch a dispatch is rejected only for a command
\* with cooldown d > 0 that has a record t with t' - t < d at its check time
\* t', and a rejected dispatch never executes or records; a dispatch that
\* goes on to execute found no record or t' - t >= d.  The remaining cooldown
\* in the response is max(0, d - (t'' - t)) for the time t'' >= t' at which
\* get_remaining_cooldown ran, so it is at most d - (t' - t).
SequentialCooldown ==
    \A i \in DispIds :
      Latest(i) =>
        /\ Rejected(i) =>
             /\ cooldown_secs(dName[i]) > 0
             /\ Rec(i) # NoRecord
             /\ dCheckedAt[i] - Rec(i) < cooldown_secs(dName[i])
             /\ ~Has(dTrace[i], "execute")
             /\ ~Has(dTrace[i], "use_last")
        /\ (Passed(i) /\ ~Recorded(i)) =>
             \/ Rec(i) = NoRecord
             \/ dCheckedAt[i] - Rec(i) >= cooldown_secs(dName[i])
        /\ Has(dTrace[i], "cooldown_respond") =>
             /\ \E t \in dCheckedAt[i]..now :
                  dRemaining[i] = Max(0, cooldown_secs(dName[i]) - (t - Rec(i)))
             /\ dRemaining[i] <= cooldown_secs(dName[i]) - (dCheckedAt[i] - Rec(i))

\* A use recorded at 0, then a dispatch of the same key checked at 1 and
\* answered with KickCooldown - 1 remaining.
SequentialCooldownWitness ==
    \E i, j \in DispIds :
      /\ j < i
      /\ dUser[j] = dUser[i] /\ dName[j] = "kick" /\ dName[i] = "kick"
      /\ Recorded(j)
      /\ dpc[i] = "done" /\ Has(dTrace[i], "cooldown_respond")
      /\ Rec(i) = 0 /\ dCheckedAt[i] = 1
      /\ dRemaining[i] = KickCooldown - 1

\* C12: the cooldown check and use_last are not one atomic step and nothing
\* serialises dispatches of one key: while a dispatch of (u, c) is between
\* its passed check and its use_last, a second dispatch of (u, c) at its
\* check is not held back and passes whenever the store says cooled down; so
\* two concurrent dispatches can both pass and both execute.
CheckNotSerialised ==
    \A i, j \in DispIds :
      ( /\ i # j
        /\ Running
        /\ dpc[i] = "cooldown"
        /\ dpc[j] \in {"execute", "use_last"}
        /\ dUser[j] = dUser[i] /\ dName[j] = dName[i]
        /\ cooled_down(dUser[i], dName[i]) ) =>
          ENABLED (cooldown_check(i) /\ dpc'[i] = "execute")

\* Two interactions of one user for "kick" have both passed the check and
\* both executed, neither having recorded its use yet.
BothExecuteWitness ==
    \E i, j \in DispIds :
      /\ i # j
      /\ dUser[i] = dUser[j] /\ dName[i] = "kick" /\ dName[j] = "kick"
      /\ cooldown_secs("kick") > 0
      /\ dpc[i] = "use_last" /\ dpc[j] = "use_last"
      /\ Has(dTrace[i], "execute") /\ Has(dTrace[j], "execute")
      /\ dCheckedAt[i] = dCheckedAt[j]

\* ------------------------------------------------------- readiness gate
\* C13: DISCORD_READY and READY_TO_GO are one-way latches: no step takes
\* either flag from true to false, so once true each stays true.
OneWayLatch ==
    [][ /\ DISCORD_READY => DISCORD_READY'
        /\ READY_TO_GO => READY_TO_GO' ]_vars

\* Both flags are set and afterwards every kind of task has run to its end:
\* the initializing handler, a later handler, an interaction that executed
\* and recorded, and the timeout checker.
LatchWitness ==
    /\ DISCORD_READY /\ READY_TO_GO
    /\ \A h \in ReadyIds : rpc[h] = "done"
    /\ \E h \in ReadyIds : rStart[h] = <<TRUE, TRUE>>
    /\ \E i \in DispIds : dpc[i] = "done" /\ Has(dTrace[i], "use_last")
    /\ wdPc = "done"

\* C14: the timeout checker decides on DISCORD_READY alone and writes no
\* shared state: its steps leave the flags, the systems, the store and every
\* handler untouched; a check that loads DISCORD_READY as true ends the
\* thread without logging or exiting, whatever READY_TO_GO is; the process
\* exits only after a check that found DISCORD_READY unset.
WatchdogReadsServiceReady ==
    /\ [][ wdPc' # wdPc =>
             UNCHANGED <<gate, systems, cooldowns, clock, readies, disps>> ]_vars
    /\ [][ (wdPc = "sleep" /\ wdPc' # "sleep") =>
             IF DISCORD_READY
               THEN wdPc' = "done" /\ wdLog' = wdLog /\ exitCode' = NotExited
               ELSE wdPc' = "exit" ]_vars
    /\ [](exitCode # NotExited => wdLog = <<"Services not ready">>)
    /\ []((wdPc = "done" /\ wdLog = <<>>) => exitCode = NotExited)

\* The check ran with DISCORD_READY set and READY_TO_GO still unset, and the
\* process goes on running.
WatchdogWitness ==
    /\ wdPc = "done" /\ wdLog = <<>>
    /\ DISCORD_READY /\ ~READY_TO_GO
    /\ exitCode = NotExited
    /\ \E h \in ReadyIds : rpc[h] = "initialize_systems"

\* C15: discord_ready_up is an idempotent set: a call made when
\* DISCORD_READY is already true does not fail and leaves both flags and the
\* stored bot user as they were.
ReadyUpIdempotent ==
    [][ \A h \in ReadyIds :
          (rpc[h] = "discord_ready_up" /\ DISCORD_READY /\ rpc'[h] # rpc[h]) =>
            /\ rpc'[h] # "panicked"
            /\ UNCHANGED <<DISCORD_READY, READY_TO_GO, AEGISTRATE_USER>> ]_vars

\* C16: under sequential dispatch a command with cooldown 0 is never
\* rejected: every check of it that the store answers goes on to execute.
\* The store holds one timestamp per (user, command) key, never later than
\* the clock; a record changes only by the use_last of a dispatch of that
\* key, which stamps it with the current time, so it is the time of the most
\* recent recorded use and never decreases.
ZeroCooldownAndLatestUse ==
    /\ [](\A i \in DispIds :
            (dName[i] \in Commands /\ cooldown_secs(dName[i]) = 0) =>
              /\ ~Rejected(i)
              /\ (Has(dTrace[i], "cooled_down") /\ ~Has(dTrace[i], "cooled_down_failed"))
                   => Passed(i))
    /\ [](/\ DOMAIN cooldowns = Users \X Commands
          /\ \A k \in DOMAIN cooldowns : cooldowns[k] \in NoRecord..now)
    /\ [][ \A k \in DOMAIN cooldowns :
             cooldowns'[k] # cooldowns[k] =>
               /\ cooldowns'[k] = now
               /\ cooldowns'[k] >= cooldowns[k]
               /\ \E i \in DispIds :
                    /\ dpc[i] = "use_last" /\ dpc'[i] = "done"
                    /\ k = <<dUser[i], dName[i]>> ]_vars
    /\ [][ \A i \in DispIds :
             (dpc[i] = "use_last" /\ dpc'[i] = "done"
                /\ ~Has(dTrace'[i], "use_last_failed")) =>
               cooldowns'[<<dUser[i], dName[i]>>] = now ]_vars

\* Two successive "ban" dispatches of one user have both executed and
\* recorded, the second one clock unit after the first; the record is the
\* time of the second.
SuccessiveZeroCooldownWitness ==
    \E i, j \in DispIds :
      /\ j < i
      /\ dUser[i] = dUser[j] /\ dName[i] = "ban" /\ dName[j] = "ban"
      /\ dpc[i] = "done" /\ dpc[j] = "done"
      /\ Recorded(i) /\ Recorded(j)
      /\ dCheckedAt[j] = 0 /\ dCheckedAt[i] = 1
      /\ cooldowns[<<dUser[i], "ban">>] = 2

\* C17 as claimed: a cooldown response is never built in a state in which
\* cooled_down, called at that instant, would return true.
ResponseOnlyWhenNotCooledDown ==
    [][ \A i \in DispIds :
          (dpc[i] = "not_cooled_down" /\ Has(dTrace'[i], "cooldown_respond")) =>
            ~cooled_down(dUser[i], dName[i]) ]_vars

\* C17: for every key, clock value and record, cooled_down implies that
\* get_remaining_cooldown is 0 (no record included), and a key on cooldown
\* has a positive remainder.  The cooldown response carries the value of
\* get_remaining_cooldown at the instant it is built, which is later than the
\* check: built in a state where the check would pass, it reports 0.
CooledDownMeansZeroRemaining ==
    /\ [](\A k \in DOMAIN cooldowns :
            /\ cooled_down(k[1], k[2]) => get_remaining_cooldown(k[1], k[2]) = 0
            /\ ~cooled_down(k[1], k[2]) => get_remaining_cooldown(k[1], k[2]) > 0)
    /\ [][ \A i \in DispIds :
             (dpc[i] = "not_cooled_down" /\ Has(dTrace'[i], "cooldown_respond")) =>
               /\ dRemaining'[i] = get_remaining_cooldown(dUser[i], dName[i])
               /\ cooled_down(dUser[i], dName[i]) => dRemaining'[i] = 0 ]_vars

\* A response built after the cooldown ran out between the check and
\* get_remaining_cooldown: it reports 0 for a key that is cooled down.
ZeroRemainingResponseWitness ==
    \E i \in DispIds :
      /\ dpc[i] = "done" /\ Has(dTrace[i], "cooldown_respond")
      /\ Rec(i) # NoRecord
      /\ dCheckedAt[i] - Rec(i) < cooldown_secs(dName[i])
      /\ cooled_down(dUser[i], dName[i])
      /\ dRemaining[i] = 0

\* ------------------------------------------------------------ dispatch
GuardResponses(i) ==
    Count(dTrace[i], "not_ready_respond") + Count(dTrace[i], "unknown_command_respond")
      + Count(dTrace[i], "cooldown_respond")
Outcomes(i) ==
    {o \in {"not_ready_respond", "unknown_command_respond", "cooldown_respond",
            "execute", "cooled_down_failed"} : Has(dTrace[i], o)}

\* C18: every interaction that has ended shows exactly one of the outcomes
\* not-ready response, unknown-command response, cooldown response, command
\* executed, aborted on a failed cooldown check; no interaction has more than
\* one guard response, more than one execute, or both a guard response and
\* an execute.
ExactlyOneOutcome ==
    \A i \in DispIds :
      /\ dpc[i] \in {"done", "panicked"} => Cardinality(Outcomes(i)) = 1
      /\ GuardResponses(i) <= 1
      /\ Count(dTrace[i], "execute") <= 1
      /\ ~(GuardResponses(i) > 0 /\ Has(dTrace[i], "execute"))

\* C19: however ready handlers interleave, at most one of them enters
\* discord_ready_up, and AEGISTRATE_USER.set(..).unwrap() never fails.
InitializesOnce ==
    /\ Cardinality({h \in ReadyIds :
                      rpc[h] = "discord_ready_up" \/ Has(rTrace[h], "discord_ready_up")}) <= 1
    /\ \A h \in ReadyIds : ~Has(rTrace[h], "panic_user_set")

\* C20: a step of the dispatch of (u, c) changes nothing but that
\* interaction's own progress and the cooldown record of (u, c): the flags,
\* the bot user, the registry and data, the clock, the timeout checker, the
\* ready handlers, the other interactions and the record of every other key
\* stay as they are, whichever way the dispatch ends.
DispatchFrame ==
    [][ \A i \in DispIds :
          dpc'[i] # dpc[i] =>
            /\ UNCHANGED <<gate, systems, clock, watchdog, readies>>
            /\ DOMAIN cooldowns' = DOMAIN cooldowns
            /\ \A k \in DOMAIN cooldowns :
                 k # <<dUser'[i], dName'[i]>> => cooldowns'[k] = cooldowns[k]
            /\ \A j \in DispIds \ {i} :
                 /\ dpc'[j] = dpc[j] /\ dTrace'[j] = dTrace[j]
                 /\ dUser'[j] = dUser[j] /\ dName'[j] = dName[j] ]_vars

\* A "kick" dispatch has recorded its use and a "ban" dispatch has ended
\* with a failed use_last: the store holds the record of "kick" alone, and
\* the registry and both flags are as the ready handler left them.
DispatchFrameWitness ==
    \E i, j \in DispIds :
      /\ dName[i] = "kick" /\ dpc[i] = "done" /\ Recorded(i)
      /\ dName[j] = "ban" /\ dpc[j] = "done" /\ Has(dTrace[j], "use_last_failed")
      /\ cooldowns[<<dUser[i], "kick">>] # NoRecord
      /\ cooldowns[<<dUser[j], "ban">>] = NoRecord
      /\ registry = Commands /\ DISCORD_READY /\ READY_TO_GO
====
